---- MODULE Spec2Model ----
(***************************************************************************)
(* Data provider abstraction layer of SciQLop:                             *)
(*   - the process-wide provider registry (data_provider.py),              *)
(*   - the product hierarchy builder, the time-axis normaliser and the     *)
(*     shape adapters' get_data (easy_provider.py).                        *)
(*                                                                         *)
(* The specifications share the variables below; each one drives its own   *)
(* group and leaves the other groups at their idle values.                 *)
(*   Spec      the registry under constructions and disposals              *)
(*   SpecHier  build_product_hierarchy applied to a drawn path             *)
(*   SpecAxis  ensure_dt64 applied to a drawn axis                         *)
(*   SpecFetch get_data of the four adapters on a drawn callback outcome   *)
(*   SpecSplit the path split of EasyProvider.__init__ on a drawn path     *)
(*   SpecEasy  the registry, the product catalog and the adapters under    *)
(*             constructions, disposals and fetches                        *)
(***************************************************************************)
EXTENDS Integers, Sequences, FiniteSets, TLC

VARIABLES
    providers,          \* data_provider.py:5  the dict name -> provider (0: no entry)
    providers_is_None,  \* the module global after interpreter teardown
    objects,            \* every DataProvider object: its life state and fields
    call,               \* the last registry call and how it ended
    hier_args,          \* arguments of build_product_hierarchy
    hier_ret,           \* what build_product_hierarchy returned
    x_data,             \* argument of ensure_dt64
    dt64_ret,           \* what ensure_dt64 returned or raised
    adapter,            \* the adapter get_data is called on
    res,                \* what the user callback does when called
    speasy_validates,   \* whether the installed speasy constructor checks lengths
    fetch_ret,          \* what get_data returned or raised
    split_path,         \* the path given to EasyProvider.__init__
    split_ret,          \* the product name and product path it is split into
    easy,               \* every object's class and, for an adapter, its own fields
    incr_names,         \* unique_names: the counter of each base name
    products,           \* the product catalog: what add_product was given
    pc                  \* the EasyProvider.__init__ in progress, if any

vars == <<providers, providers_is_None, objects, call, hier_args, hier_ret,
          x_data, dt64_ret, adapter, res, speasy_validates, fetch_ret,
          split_path, split_ret, easy, incr_names, products, pc>>

registryVars == <<providers, providers_is_None, objects, call>>
hierVars == <<hier_args, hier_ret>>
axisVars == <<x_data, dt64_ret>>
fetchVars == <<adapter, res, speasy_validates, fetch_ret>>
splitVars == <<split_path, split_ret>>
easyVars == <<easy, incr_names, products, pc>>

(***************************************************************************)
(* Bounds of the model.                                                    *)
(***************************************************************************)
MaxObjects == 3

ObjectIds == 1..MaxObjects

\* Names a caller may construct a DataProvider under.
ProviderNames == {"amda", "cdaweb"}

\* SciQLop.backend.enums.DataOrder
DataOrder == {"X_FIRST", "Y_FIRST"}

\* callback.__name__ of the functions adapters are built around.
CallbackNames == {"f", "g"}

\* The names make_simple_incr_name can derive while MaxObjects objects are built.
DerivedNames == {base \o ToString(i) : base \in CallbackNames, i \in 0..(MaxObjects - 1)}

\* Every key the dict may hold.
RegistryKeys == ProviderNames \cup DerivedNames

(***************************************************************************)
(* The provider registry: data_provider.py                                 *)
(***************************************************************************)

\* providers = {}
EmptyDict == [n \in RegistryKeys |-> 0]

\* An object that was not constructed yet.
Unborn == [state |-> "unborn", name |-> "", data_order |-> ""]

\* The log of the last registry call: the operation, its receiver, the key it
\* used, the exception it raised ("none": it returned) and the dict as it was
\* when the call began.
NoCall == [op |-> "none", self |-> 0, name |-> "", exc |-> "none", before |-> EmptyDict]

\* providers.get(name): the registered provider, 0 when there is none.
lookup(name) == providers[name]

\* A registration that keeps the entry a name already has (first writer wins).
dict_setitem_keep(d, name, self) ==
    IF d[name] # 0 THEN d ELSE [d EXCEPT ![name] = self]

\* providers[name] = self
dict_setitem(d, name, self) == [d EXCEPT ![name] = self]

\* providers.pop(name): removes the entry whatever object it holds; KeyError
\* when the key is absent (pop is given no default).
dict_pop(d, name) ==
    IF d[name] # 0
    THEN [raised |-> "none", dict |-> [d EXCEPT ![name] = 0]]
    ELSE [raised |-> "KeyError", dict |-> d]

\* Objects are allocated in order: the next object to be constructed.
NextObject ==
    IF \E p \in ObjectIds : objects[p].state = "unborn"
    THEN CHOOSE p \in ObjectIds :
            /\ objects[p].state = "unborn"
            /\ \A q \in ObjectIds : objects[q].state = "unborn" => p <= q
    ELSE 0

\* DataProvider.__init__(self, name, data_order)
DataProvider_init(self, name, data_order) ==
    /\ self = NextObject
    /\ ~providers_is_None
    /\ providers' = dict_setitem(providers, name, self)
    /\ objects' = [objects EXCEPT ![self] =
                      [state |-> "live", name |-> name, data_order |-> data_order]]
    /\ call' = [op |-> "__init__", self |-> self, name |-> name, exc |-> "none",
                before |-> providers]
    /\ UNCHANGED <<providers_is_None, hierVars, axisVars, fetchVars, splitVars, easyVars>>

\* DataProvider.__del__(self)
DataProvider_del(self) ==
    /\ objects[self].state = "live"
    /\ LET popped == dict_pop(providers, objects[self].name)
       IN  IF ~providers_is_None
           THEN /\ providers' = popped.dict
                /\ call' = [op |-> "__del__", self |-> self,
                            name |-> objects[self].name, exc |-> popped.raised,
                            before |-> providers]
           ELSE /\ providers' = providers
                /\ call' = [op |-> "__del__", self |-> self,
                            name |-> objects[self].name, exc |-> "none",
                            before |-> providers]
    /\ objects' = [objects EXCEPT ![self].state = "deleted"]
    /\ UNCHANGED <<providers_is_None, hierVars, axisVars, fetchVars, splitVars, easyVars>>

\* Interpreter shutdown: the module's globals are cleared, after which only
\* finalisers still run (the case __del__ guards against).
ModuleTeardown ==
    /\ ~providers_is_None
    /\ providers_is_None' = TRUE
    /\ call' = [op |-> "teardown", self |-> 0, name |-> "", exc |-> "none",
                before |-> providers]
    /\ UNCHANGED <<providers, objects, hierVars, axisVars, fetchVars, splitVars, easyVars>>

RegistryInit ==
    /\ providers = EmptyDict
    /\ providers_is_None = FALSE
    /\ objects = [p \in ObjectIds |-> Unborn]
    /\ call = NoCall

(***************************************************************************)
(* The product hierarchy builder: easy_provider.py                         *)
(*                                                                         *)
(* A string is a sequence of characters, so that startswith, split and     *)
(* slicing are computed as Python computes them.  The tree is a heap of    *)
(* Product objects (index = object identity) whose children are references *)
(* into the heap: merge adopts the object itself, and the code goes on to  *)
(* merge into the adopted object.                                          *)
(***************************************************************************)
MaxPathLen == 7

Chars == {"/", "A", "B"}

Strings(n) == UNION {[1..k -> Chars] : k \in 0..n}

\* SciQLop.backend.enums.ParameterType
ParameterType == {"SCALAR", "VECTOR", "MULTICOMPONENT", "SPECTROGRAM"}

\* The metadata dicts a caller passes: a set of (key, value) items.
Metadatas == {{}, {<<"units", "nT">>}}

\* The provider argument: only its name is read.
HierProvider == [name |-> <<"P">>]

\* Product(name, metadata, provider, uid, is_parameter=False, parameter_type=None)
Product(name, metadata, provider, uid, is_parameter, parameter_type) ==
    [name |-> name, metadata |-> metadata, provider |-> provider, uid |-> uid,
     is_parameter |-> is_parameter, parameter_type |-> parameter_type,
     children |-> <<>>]

\* The children of heap[node] whose name is `name` (positions in its child list).
children_named(heap, node, name) ==
    {i \in 1..Len(heap[node].children) : heap[heap[node].children[i]].name = name}

\* Product.merge(self, other): adopt `other` as a new child when self has no
\* child of that name; otherwise merge other's children into the child of that
\* name, a conflicting leaf definition being overwritten by the later merge.
RECURSIVE merge_children(_, _, _, _)
merge(heap, self, other) ==
    LET same == children_named(heap, self, heap[other].name)
    IN  IF same = {}
        THEN [heap EXCEPT ![self].children = Append(@, other)]
        ELSE LET kept == heap[self].children[CHOOSE i \in same : TRUE]
             IN  IF heap[other].children = <<>>
                 THEN [heap EXCEPT ![kept] =
                          [heap[other] EXCEPT !.children = heap[kept].children]]
                 ELSE merge_children(heap, kept, heap[other].children, 1)

merge_children(heap, self, others, k) ==
    IF k > Len(others) THEN heap
    ELSE merge_children(merge(heap, self, others[k]), self, others, k + 1)

\* path.startswith('/')
startswith_slash(path) == Len(path) > 0 /\ path[1] = "/"

\* path.split('/'): never empty; "" gives [""], "A/" gives ["A", ""].
RECURSIVE split(_)
split(s) ==
    IF \A i \in 1..Len(s) : s[i] # "/"
    THEN <<s>>
    ELSE LET i == CHOOSE j \in 1..Len(s) :
                      s[j] = "/" /\ \A h \in 1..(j - 1) : s[h] # "/"
         IN  <<SubSeq(s, 1, i - 1)>> \o split(SubSeq(s, i + 1, Len(s)))

\* A loop over every element after the first, the last one included.
elements_after_first(elements) == SubSeq(elements, 2, Len(elements))

\* elements[1:-1]
elements_1_to_last(elements) == SubSeq(elements, 2, Len(elements) - 1)

\* A namespace node that is flagged as a parameter.
flagged_namespace_Product(e, provider) ==
    Product(e, {}, provider.name, provider.name, TRUE, "None")

\* Product(name=f"{e}", metadata={}, provider=provider.name, uid=provider.name)
namespace_Product(e, provider) ==
    Product(e, {}, provider.name, provider.name, FALSE, "None")

\* for e in elements[1:-1]: new_node = Product(...); current_node.merge(new_node);
\* current_node = new_node   -- from position k of `middle` on
RECURSIVE chain_nodes(_, _, _, _, _)
chain_nodes(heap, current_node, middle, k, provider) ==
    IF k > Len(middle) THEN [heap |-> heap, current_node |-> current_node]
    ELSE LET new_node == Len(heap) + 1
             heap1 == Append(heap, namespace_Product(middle[k], provider))
         IN  chain_nodes(merge(heap1, current_node, new_node), new_node,
                         middle, k + 1, provider)

\* build_product_hierarchy(path, provider, parameter_type, metadata): the root
\* node (heap index 1) and the heap it lives in.
build_product_hierarchy(path, provider, parameter_type, metadata) ==
    LET path1 == IF startswith_slash(path) THEN Tail(path) ELSE path
        elements == split(path1)
        root_node == namespace_Product(elements[1], provider)
        looped == chain_nodes(<<root_node>>, 1, elements_1_to_last(elements), 1,
                              provider)
        leaf == Len(looped.heap) + 1
        heap1 == Append(looped.heap,
                        Product(elements[Len(elements)], metadata, provider.name,
                                elements[Len(elements)], TRUE, parameter_type))
    IN  [status |-> "returned", root |-> 1,
         heap |-> merge(heap1, looped.current_node, leaf)]

\* The call build_product_hierarchy(path, provider, parameter_type, metadata).
BuildHierarchy ==
    /\ hier_ret.status = "pending"
    /\ hier_ret' = build_product_hierarchy(hier_args.path, hier_args.provider,
                                           hier_args.parameter_type,
                                           hier_args.metadata)
    /\ UNCHANGED <<hier_args, registryVars, axisVars, fetchVars, splitVars, easyVars>>

HierInit ==
    /\ hier_args \in [path : Strings(MaxPathLen), provider : {HierProvider},
                      parameter_type : ParameterType, metadata : Metadatas]
    /\ hier_ret = [status |-> "pending"]

(***************************************************************************)
(* The time-axis normaliser: easy_provider.py                              *)
(*                                                                         *)
(* An array is its Python type, its dtype (for a list: the type of its     *)
(* elements), its shape and its elements in row-major order.  A float64    *)
(* number of seconds is held exactly, as an integer count of ticks of      *)
(* 1/TicksPerNs nanosecond; a datetime64[ns] is an integer count of        *)
(* nanoseconds.                                                            *)
(***************************************************************************)
MaxAxisLen == 2

TicksPerNs == 2

\* 1e9
NsPerSecond == 1000000000

\* Numbers an element may hold (ticks for a float64, units for the others).
AxisValues == {-3, -1, 0, 2}

ArrayKinds ==
    {<<"ndarray", "datetime64[ns]">>, <<"ndarray", "float64">>,
     <<"ndarray", "int64">>, <<"ndarray", "float32">>,
     <<"ndarray", "datetime64[us]">>, <<"ndarray", "<U1">>,
     <<"list", "float">>, <<"list", "str">>}

array(kind, shape, data) ==
    [type |-> kind[1], dtype |-> kind[2], shape |-> shape, data |-> data]

NoArray == array(<<"NoneType", "">>, <<>>, <<>>)

\* Integer division that rounds toward zero, as a float -> int64 cast does.
trunc_div(t, d) == IF t >= 0 THEN t \div d ELSE -((-t) \div d)

\* x_data.astype("datetime64[ns]"), the seconds not scaled to nanoseconds.
astype_dt64_unscaled(t) == trunc_div(t, TicksPerNs * NsPerSecond)

\* (x * 1e9).astype("datetime64[ns]") of one float64 element
mul_1e9_astype_dt64(t) == trunc_div(t, TicksPerNs)

\* ensure_dt64(x_data)
ensure_dt64(x) ==
    IF x.type = "ndarray" /\ x.dtype = "datetime64[ns]"
    THEN [status |-> "returned", exc |-> "none", value |-> x]
    ELSE IF x.type = "ndarray" /\ x.dtype = "float64"
    THEN [status |-> "returned", exc |-> "none",
          value |-> [x EXCEPT !.dtype = "datetime64[ns]",
                              !.data = [i \in 1..Len(x.data) |->
                                           mul_1e9_astype_dt64(x.data[i])]]]
    ELSE [status |-> "raised", exc |-> "ValueError", value |-> NoArray]

\* The call ensure_dt64(x_data).
EnsureDt64 ==
    /\ dt64_ret.status = "pending"
    /\ dt64_ret' = ensure_dt64(x_data)
    /\ UNCHANGED <<x_data, registryVars, hierVars, fetchVars, splitVars, easyVars>>

AxisInit ==
    /\ x_data \in {array(kind, <<Len(data)>>, data) :
                      kind \in ArrayKinds,
                      data \in UNION {[1..n -> AxisValues] : n \in 0..MaxAxisLen}}
    /\ dt64_ret = [status |-> "pending"]

(***************************************************************************)
(* The shape adapters' get_data: easy_provider.py                          *)
(*                                                                         *)
(* The user callback is given by what one call of it does: it raises, or   *)
(* it returns a SpeasyVariable, a tuple of arrays, or some other object.   *)
(***************************************************************************)
MaxDim == 2

MaxArity == 3

\* The adapters, each with the _columns its constructor stores.
Adapters ==
    {[cls |-> "EasyScalar", columns |-> <<"c">>],
     [cls |-> "EasyVector", columns |-> <<"x", "y", "z">>],
     [cls |-> "EasyMultiComponent", columns |-> <<"a", "b">>],
     [cls |-> "EasySpectrogram", columns |-> <<>>]}

RECURSIVE product(_)
product(shape) == IF shape = <<>> THEN 1 ELSE Head(shape) * product(Tail(shape))

zeros(kind, shape) == array(kind, shape, [i \in 1..product(shape) |-> 0])

Shapes == {<<n>> : n \in 1..MaxDim} \cup {<<n, m>> : n \in 1..MaxDim, m \in 1..MaxDim}

\* What a callback may put first in its tuple (the time axis) ...
FirstItems ==
    {zeros(kind, <<n>>) :
        kind \in {<<"ndarray", "float64">>, <<"ndarray", "datetime64[ns]">>,
                  <<"ndarray", "int64">>, <<"list", "float">>},
        n \in 1..MaxDim}

\* ... and after it (a data block or a secondary axis).
OtherItems ==
    {zeros(kind, shape) :
        kind \in {<<"ndarray", "float64">>, <<"list", "float">>}, shape \in Shapes}

Tuples ==
    UNION {{t \in [1..k -> FirstItems \cup OtherItems] :
               \A i \in 1..k : IF i = 1 THEN t[i] \in FirstItems
                                        ELSE t[i] \in OtherItems} :
           k \in 0..MaxArity}

\* VariableTimeAxis(values), VariableAxis(values), DataContainer(values)
VariableTimeAxis(values) == [values |-> values]

VariableAxis(values) == [values |-> values]

DataContainer(values) == [values |-> values]

NoVariable == [axes |-> <<>>, values |-> DataContainer(NoArray), columns |-> <<>>]

\* np.ascontiguousarray(a): an ndarray of the same shape and elements.
ascontiguousarray(a) ==
    [a EXCEPT !.type = "ndarray",
              !.dtype = IF a.type = "list" THEN "float64" ELSE a.dtype]

returned_None == [status |-> "returned", exc |-> "none", kind |-> "NoneType",
                  var |-> NoVariable]

returned_Variable(v) == [status |-> "returned", exc |-> "none",
                         kind |-> "SpeasyVariable", var |-> v]

raised(exc) == [status |-> "raised", exc |-> exc, kind |-> "none", var |-> NoVariable]

\* SpeasyVariable(axes, values, columns) of the speasy library: a version that
\* validates rejects a time axis whose length is not the values' first dimension.
SpeasyVariable(axes, values, columns) ==
    IF speasy_validates /\ axes[1].values.shape[1] # values.values.shape[1]
    THEN raised("ValueError")
    ELSE returned_Variable([axes |-> axes, values |-> values, columns |-> columns])

\* Variables a callback builds itself with speasy: well formed.
PrebuiltVariables ==
    {[axes |-> <<VariableTimeAxis(zeros(<<"ndarray", "datetime64[ns]">>, <<n>>))>>,
      values |-> DataContainer(zeros(<<"ndarray", "float64">>, <<n>>)),
      columns |-> <<"c">>] : n \in 1..MaxDim}
    \cup
    {[axes |-> <<VariableTimeAxis(zeros(<<"ndarray", "datetime64[ns]">>, <<n>>)),
                 VariableAxis(zeros(<<"ndarray", "float64">>, <<m>>))>>,
      values |-> DataContainer(zeros(<<"ndarray", "float64">>, <<n, m>>)),
      columns |-> <<>>] : n \in 1..MaxDim, m \in 1..MaxDim}

\* What one call self._user_get_data(start, stop) does.
CallbackOutcomes ==
    {[kind |-> "raise", items |-> <<>>, var |-> NoVariable]}
    \cup {[kind |-> "SpeasyVariable", items |-> <<>>, var |-> v] : v \in PrebuiltVariables}
    \cup {[kind |-> "tuple", items |-> t, var |-> NoVariable] : t \in Tuples}
    \cup {[kind |-> k, items |-> <<>>, var |-> NoVariable] :
             k \in {"float", "NoneType", "list"}}

\* x, y = res
\* SpeasyVariable(axes=[VariableTimeAxis(ensure_dt64(x))],
\*                values=DataContainer(np.ascontiguousarray(y)), columns=self._columns)
from_xy(self, items) ==
    IF Len(items) # 2 THEN raised("ValueError")
    ELSE LET x == ensure_dt64(items[1])
         IN  IF x.status = "raised" THEN raised(x.exc)
             ELSE SpeasyVariable(<<VariableTimeAxis(x.value)>>,
                                 DataContainer(ascontiguousarray(items[2])),
                                 self.columns)

\* x, y, z = res
\* SpeasyVariable(axes=[VariableTimeAxis(ensure_dt64(x)),
\*                      VariableAxis(np.ascontiguousarray(y))],
\*                values=DataContainer(np.ascontiguousarray(z)))
from_xyz(self, items) ==
    IF Len(items) # 3 THEN raised("ValueError")
    ELSE LET x == ensure_dt64(items[1])
         IN  IF x.status = "raised" THEN raised(x.exc)
             ELSE SpeasyVariable(<<VariableTimeAxis(x.value),
                                   VariableAxis(ascontiguousarray(items[2]))>>,
                                 DataContainer(ascontiguousarray(items[3])),
                                 <<>>)

\* EasyScalar.get_data, EasyVector.get_data (inherited by EasyMultiComponent) and
\* EasySpectrogram.get_data, on the callback outcome r.
get_data(self, r) ==
    IF r.kind = "raise" THEN raised("CallbackError")
    ELSE IF r.kind = "SpeasyVariable" THEN returned_Variable(r.var)
    ELSE IF r.kind = "tuple"
    THEN IF self.cls = "EasySpectrogram" THEN from_xyz(self, r.items)
                                         ELSE from_xy(self, r.items)
    ELSE returned_None

\* The call adapter.get_data(product, start, stop).
GetData ==
    /\ fetch_ret.status = "pending"
    /\ fetch_ret' = get_data(adapter, res)
    /\ UNCHANGED <<adapter, res, speasy_validates, registryVars, hierVars, axisVars,
                 splitVars, easyVars>>

FetchInit ==
    /\ adapter \in Adapters
    /\ res \in CallbackOutcomes
    /\ speasy_validates \in BOOLEAN
    /\ fetch_ret = [status |-> "pending"]

(***************************************************************************)
(* The path split of EasyProvider.__init__: easy_provider.py               *)
(***************************************************************************)

\* path.split('/')[-1]
product_name_of(path) == split(path)[Len(split(path))]

\* s[:-n] for n >= 0: the end is the index -n, and -0 is the index 0.
slice_to_minus(s, n) == IF n = 0 THEN <<>> ELSE SubSeq(s, 1, Len(s) - n)

\* product_name = path.split('/')[-1]; product_path = path[:-len(product_name)]
split_product_path(path) ==
    [status |-> "returned",
     product_name |-> product_name_of(path),
     product_path |-> slice_to_minus(path, Len(product_name_of(path)))]

\* The two assignments at the head of EasyProvider.__init__.
SplitPath ==
    /\ split_ret.status = "pending"
    /\ split_ret' = split_product_path(split_path)
    /\ UNCHANGED <<split_path, registryVars, hierVars, axisVars, fetchVars, easyVars>>

SplitInit ==
    /\ split_path \in Strings(MaxPathLen)
    /\ split_ret = [status |-> "pending"]

(***************************************************************************)
(* Adapters in the running program: easy_provider.py                       *)
(*                                                                         *)
(* EasyProvider.__init__ runs in two steps, DataProvider.__init__ (through *)
(* super) and then the rest; a finaliser of another object may run between *)
(* them.  The catalog is the list of what products.add_product was given,  *)
(* each entry with the object that added it.                               *)
(***************************************************************************)

\* The class of an object that is no adapter, and its (absent) adapter fields.
PlainFields == [cls |-> "DataProvider", callback |-> "", columns |-> <<>>]

\* Names plugins construct plain providers under: any string, also one that
\* make_simple_incr_name derives.
PlainNames == {"amda", "f0"}

\* The paths adapters are constructed with.
EasyPaths == {<<"/", "A", "/", "B">>}

\* The adapter classes constructed: one with the two-array contract, one with
\* the three-array contract.
EasyAdapters == {a \in Adapters : a.cls \in {"EasyScalar", "EasySpectrogram"}}

\* The parameter type each adapter class passes to EasyProvider.__init__.
parameter_type_of(cls) ==
    CASE cls = "EasyScalar" -> "SCALAR"
      [] cls = "EasyVector" -> "VECTOR"
      [] cls = "EasyMultiComponent" -> "MULTICOMPONENT"
      [] cls = "EasySpectrogram" -> "SPECTROGRAM"

\* make_simple_incr_name(base): the base name followed by its counter, which
\* is then incremented.
make_simple_incr_name(base, counters) ==
    [name |-> base \o ToString(counters[base]),
     counters |-> [counters EXCEPT ![base] = @ + 1]]

\* A provider name that never reads the counter.
callback_name_uncounted(callback, counters) == callback \o "0"

\* name=make_simple_incr_name(callback.__name__)
derived_provider_name(callback, counters) ==
    make_simple_incr_name(callback, counters).name

\* products.add_product(path=..., product=...) called by object `by`.
add_product(catalog, path, leaf, by) ==
    Append(catalog, [path |-> path, product |-> leaf, by |-> by])

NoConstruction == [status |-> "idle", self |-> 0, cls |-> "", columns |-> <<>>,
                   path |-> <<>>, callback |-> ""]

\* EasyProvider.__init__, first step:
\* super().__init__(name=make_simple_incr_name(callback.__name__), data_order=...)
EasyProvider_init_super(self, a, path, callback, data_order) ==
    /\ pc.status = "idle"
    /\ self = NextObject
    /\ ~providers_is_None
    /\ LET name == derived_provider_name(callback, incr_names)
       IN  /\ providers' = dict_setitem(providers, name, self)
           /\ objects' = [objects EXCEPT ![self] =
                             [state |-> "constructing", name |-> name,
                              data_order |-> data_order]]
           /\ call' = [op |-> "__init__", self |-> self, name |-> name,
                       exc |-> "none", before |-> providers]
    /\ incr_names' = make_simple_incr_name(callback, incr_names).counters
    /\ easy' = [easy EXCEPT ![self] = [cls |-> a.cls, callback |-> "", columns |-> <<>>]]
    /\ pc' = [status |-> "add_product", self |-> self, cls |-> a.cls,
              columns |-> a.columns, path |-> path, callback |-> callback]
    /\ UNCHANGED <<providers_is_None, products, hierVars, axisVars, fetchVars, splitVars>>

\* EasyProvider.__init__, the rest: the path split, products.add_product(...),
\* self._user_get_data = callback, and the subclass's self._columns = ...
EasyProvider_init_rest ==
    /\ pc.status = "add_product"
    /\ LET parts == split_product_path(pc.path)
           type == parameter_type_of(pc.cls)
       IN  products' = add_product(products, parts.product_path,
                          Product(parts.product_name,
                                  {<<"description", type, pc.callback>>},
                                  objects[pc.self].name, parts.product_name,
                                  TRUE, type),
                          pc.self)
    /\ easy' = [easy EXCEPT ![pc.self] =
                   [cls |-> pc.cls, callback |-> pc.callback, columns |-> pc.columns]]
    /\ objects' = [objects EXCEPT ![pc.self].state = "live"]
    /\ pc' = NoConstruction
    /\ UNCHANGED <<providers, providers_is_None, call, incr_names,
                   hierVars, axisVars, fetchVars, splitVars>>

\* What a callback does in the running program: a few of CallbackOutcomes.
EasyOutcomes ==
    {r \in CallbackOutcomes :
        \/ r.kind = "raise"
        \/ r.kind = "tuple" /\ Len(r.items) \in {2, 3}
              /\ r.items[1].type = "ndarray"
              /\ r.items[1].dtype \in {"float64", "int64"}
              /\ (Len(r.items) = 3 => r.items[1].dtype = "float64")
              /\ \A i \in 1..Len(r.items) :
                    r.items[i].type = "ndarray" /\ r.items[i].shape = <<1>>}

NoFetch == [cls |-> "", columns |-> <<>>]

\* A get_data that keeps what it computed on the adapter.
get_data_caching(s) == [s EXCEPT !.fields.columns = <<"cached">>]

\* What get_data leaves of the state it can reach (the adapter's fields and
\* attributes, the registry, the catalog): it assigns to none of it.
get_data_effects(s) == s

\* provider.get_data(product, start, stop) on a constructed adapter.
EasyGetData(self, r) ==
    /\ pc.status = "idle"
    /\ objects[self].state = "live"
    /\ easy[self].cls # "DataProvider"
    /\ adapter' = [cls |-> easy[self].cls, columns |-> easy[self].columns]
    /\ res' = r
    /\ fetch_ret' = get_data(adapter', r)
    /\ LET after == get_data_effects([fields |-> easy[self], object |-> objects[self],
                                      providers |-> providers, products |-> products])
       IN  /\ easy' = [easy EXCEPT ![self] = after.fields]
           /\ objects' = [objects EXCEPT ![self] = after.object]
           /\ providers' = after.providers
           /\ products' = after.products
    /\ UNCHANGED <<providers_is_None, call, incr_names, pc, speasy_validates,
                   hierVars, axisVars, splitVars>>

\* A plain provider is constructed, or an object is finalised, by the program
\* the adapters live in.
PlainProvider_init(self, name, data_order) ==
    /\ pc.status = "idle"
    /\ DataProvider_init(self, name, data_order)

EasyInit ==
    /\ easy = [p \in ObjectIds |-> PlainFields]
    /\ incr_names = [base \in CallbackNames |-> 0]
    /\ products = <<>>
    /\ pc = NoConstruction
    /\ adapter = NoFetch
    /\ res = [kind |-> "none", items |-> <<>>, var |-> NoVariable]
    /\ speasy_validates = TRUE
    /\ fetch_ret = [status |-> "pending"]

(***************************************************************************)
(* Idle values of the groups a specification does not drive.               *)
(***************************************************************************)
Idle == [status |-> "idle"]

HierIdle == hier_args = Idle /\ hier_ret = Idle
AxisIdle == x_data = Idle /\ dt64_ret = Idle
FetchIdle == adapter = Idle /\ res = Idle /\ speasy_validates = FALSE /\ fetch_ret = Idle
RegistryIdle == RegistryInit
SplitIdle == split_path = Idle /\ split_ret = Idle
EasyIdle == easy = Idle /\ incr_names = Idle /\ products = Idle /\ pc = Idle
NoEasy == SplitIdle /\ EasyIdle

Init == RegistryInit /\ HierIdle /\ AxisIdle /\ FetchIdle /\ NoEasy

Next ==
    \/ \E self \in ObjectIds, name \in ProviderNames, data_order \in DataOrder :
          DataProvider_init(self, name, data_order)
    \/ \E self \in ObjectIds : DataProvider_del(self)
    \/ ModuleTeardown

Spec == Init /\ [][Next]_vars

SpecHierInit == HierInit /\ RegistryIdle /\ AxisIdle /\ FetchIdle /\ NoEasy

SpecHierNext == BuildHierarchy

SpecHier == SpecHierInit /\ [][SpecHierNext]_vars

SpecAxisInit == AxisInit /\ RegistryIdle /\ HierIdle /\ FetchIdle /\ NoEasy

SpecAxisNext == EnsureDt64

SpecAxis == SpecAxisInit /\ [][SpecAxisNext]_vars

SpecFetchInit == FetchInit /\ RegistryIdle /\ HierIdle /\ AxisIdle /\ NoEasy

SpecFetchNext == GetData

SpecFetch == SpecFetchInit /\ [][SpecFetchNext]_vars

SpecSplitInit ==
    SplitInit /\ RegistryIdle /\ HierIdle /\ AxisIdle /\ FetchIdle /\ EasyIdle

SpecSplitNext == SplitPath

SpecSplit == SpecSplitInit /\ [][SpecSplitNext]_vars

SpecEasyInit == EasyInit /\ RegistryInit /\ HierIdle /\ AxisIdle /\ SplitIdle

SpecEasyNext ==
    \/ \E self \in ObjectIds, name \in PlainNames : PlainProvider_init(self, name, "X_FIRST")
    \/ \E self \in ObjectIds, a \in EasyAdapters, path \in EasyPaths, callback \in CallbackNames :
          EasyProvider_init_super(self, a, path, callback, "Y_FIRST")
    \/ EasyProvider_init_rest
    \/ \E self \in ObjectIds : DataProvider_del(self)
    \/ \E self \in ObjectIds, r \in EasyOutcomes : EasyGetData(self, r)

SpecEasy == SpecEasyInit /\ [][SpecEasyNext]_vars

(***************************************************************************)
(* Properties of the registry, checked under Spec.                         *)
(***************************************************************************)

\* The names the dict has an entry for.
Entries(d) == {n \in DOMAIN d : d[n] # 0}

\* C1: disposing a provider that a later provider replaced under the same name
\* leaves the later provider registered: lookup of the name still returns it.
C1_ReplacedDisposalKeepsLater ==
    (call.op = "__del__" /\ call.before[call.name] \notin {0, call.self})
        => lookup(call.name) = call.before[call.name]

\* C2: every disposal completes without raising, and a disposal whose name is
\* not in the registry leaves the registry as it was.
C2_AbsentUnregisterIsNoOp ==
    call.op = "__del__"
        => /\ call.exc = "none"
           /\ (call.before[call.name] = 0 => providers = call.before)

Segments(path) == split(IF startswith_slash(path) THEN Tail(path) ELSE path)

RECURSIVE Join(_)
Join(segs) ==
    IF Len(segs) = 1 THEN segs[1] ELSE segs[1] \o <<"/">> \o Join(Tail(segs))

\* At least two segments, none empty.
ValidPath(path) ==
    LET segs == Segments(path)
    IN  /\ Len(segs) >= 2
        /\ \A i \in 1..Len(segs) : segs[i] # <<>> /\ \A j \in 1..Len(segs[i]) : segs[i][j] # "/"
        /\ path \in {Join(segs), <<"/">> \o Join(segs)}

\* From heap[node] down, the tree is the chain segs[k], segs[k+1], ..., one child
\* per level, ending in a childless parameter leaf of the given type and metadata.
RECURSIVE IsChain(_, _, _, _, _, _)
IsChain(heap, node, segs, k, type, meta) ==
    /\ heap[node].name = segs[k]
    /\ IF k = Len(segs)
       THEN /\ heap[node].children = <<>>
            /\ heap[node].is_parameter = TRUE
            /\ heap[node].parameter_type = type
            /\ heap[node].metadata = meta
       ELSE /\ Len(heap[node].children) = 1
            /\ IsChain(heap, heap[node].children[1], segs, k + 1, type, meta)

\* C6: for a valid path with at least one intermediate segment the result is a
\* root named after the first segment, heading a chain with exactly one child
\* per level that ends in a single leaf named after the last segment, with
\* is_parameter = true, the given parameter_type and the given metadata.
C6_ValidPathGivesChain ==
    (hier_ret.status = "returned" /\ ValidPath(hier_args.path)
        /\ Len(Segments(hier_args.path)) >= 3)
        => /\ Len(hier_ret.heap) = Len(Segments(hier_args.path))
           /\ IsChain(hier_ret.heap, hier_ret.root, Segments(hier_args.path), 1,
                      hier_args.parameter_type, hier_args.metadata)

\* C6 happens: a hierarchy was built from a path "/A/B/C" with a leading slash
\* and non-empty metadata.
C6_Witness ==
    /\ hier_ret.status = "returned"
    /\ ValidPath(hier_args.path)
    /\ startswith_slash(hier_args.path)
    /\ Len(Segments(hier_args.path)) >= 3
    /\ hier_args.metadata # {}

\* C7: a path that does not split into at least two non-empty segments is
\* treated as invalid: no hierarchy is returned for it.
C7_InvalidPathRejected ==
    (hier_ret.status # "pending" /\ ~ValidPath(hier_args.path))
        => hier_ret.status # "returned"

\* provider=None
NoneProvider == <<>>

\* C8 as claimed: in every tree returned (here: for a valid path) the root and
\* every intermediate node have no provider, is_parameter = false and empty
\* metadata.
C8_NamespaceNodesHaveNoProvider ==
    (hier_ret.status = "returned" /\ ValidPath(hier_args.path))
        => \A k \in 1..Len(hier_ret.heap) :
              hier_ret.heap[k].children # <<>>
                  => /\ hier_ret.heap[k].provider = NoneProvider
                     /\ hier_ret.heap[k].is_parameter = FALSE
                     /\ hier_ret.heap[k].metadata = {}

\* C8 as amended: in every returned tree only the leaf is a parameter and has a
\* parameter_type; the root and every intermediate node have is_parameter =
\* false, no parameter_type and empty metadata; and every node, the root and the
\* intermediate nodes included, carries the provider's name as its provider.
C8_OnlyLeafIsParameter ==
    hier_ret.status = "returned"
        => \A k \in 1..Len(hier_ret.heap) :
              /\ hier_ret.heap[k].provider = hier_args.provider.name
              /\ IF hier_ret.heap[k].children = <<>>
                 THEN /\ k = Len(hier_ret.heap)
                      /\ hier_ret.heap[k].is_parameter = TRUE
                      /\ hier_ret.heap[k].parameter_type = hier_args.parameter_type
                 ELSE /\ hier_ret.heap[k].is_parameter = FALSE
                      /\ hier_ret.heap[k].parameter_type = "None"
                      /\ hier_ret.heap[k].metadata = {}

\* C8 happens: a tree with a root, an intermediate node and a leaf with
\* metadata was returned.
C8_Witness ==
    /\ hier_ret.status = "returned"
    /\ Len(hier_ret.heap) >= 3
    /\ hier_ret.heap[1].children # <<>>
    /\ hier_ret.heap[2].children # <<>>
    /\ hier_ret.heap[Len(hier_ret.heap)].metadata # {}

(***************************************************************************)
(* Properties of ensure_dt64, checked under SpecAxis.                      *)
(***************************************************************************)

\* r nanoseconds is t ticks taken as whole nanoseconds: the integer part.
IsNsOf(r, t) ==
    LET abs(v) == IF v >= 0 THEN v ELSE -v
    IN  /\ r * t >= 0
        /\ abs(r) * TicksPerNs <= abs(t)
        /\ abs(t) < abs(r) * TicksPerNs + TicksPerNs

\* C9: a datetime64[ns] array is returned unchanged; a float64 array of seconds
\* is returned as an array of the same length whose elements are the seconds
\* times 1e9 as nanosecond timestamps; every other input raises and yields no
\* result.
C9_ThreeWayDispatch ==
    dt64_ret.status # "pending"
        => IF x_data.type = "ndarray" /\ x_data.dtype = "datetime64[ns]"
           THEN dt64_ret.status = "returned" /\ dt64_ret.value = x_data
           ELSE IF x_data.type = "ndarray" /\ x_data.dtype = "float64"
           THEN /\ dt64_ret.status = "returned"
                /\ dt64_ret.value.type = "ndarray"
                /\ dt64_ret.value.dtype = "datetime64[ns]"
                /\ dt64_ret.value.shape = x_data.shape
                /\ Len(dt64_ret.value.data) = Len(x_data.data)
                /\ \A i \in 1..Len(x_data.data) :
                      IsNsOf(dt64_ret.value.data[i], x_data.data[i])
           ELSE /\ dt64_ret.status = "raised"
                /\ dt64_ret.exc = "ValueError"
                /\ dt64_ret.value = NoArray

\* C9 happens: a float64 axis with a fractional, negative number of nanoseconds
\* was converted.
C9_Witness ==
    /\ dt64_ret.status = "returned"
    /\ x_data.dtype = "float64"
    /\ \E i \in 1..Len(x_data.data) :
          x_data.data[i] < 0 /\ dt64_ret.value.data[i] * TicksPerNs # x_data.data[i]

(***************************************************************************)
(* Properties of the adapters' get_data, checked under SpecFetch.          *)
(***************************************************************************)

\* The tuple length each adapter expects.
ExpectedArity(cls) == IF cls = "EasySpectrogram" THEN 3 ELSE 2

\* C3: when the callback raises, get_data returns None and raises nothing.
C3_CallbackRaiseGivesAbsent ==
    (fetch_ret.status # "pending" /\ res.kind = "raise")
        => fetch_ret.status = "returned" /\ fetch_ret.kind = "NoneType"

\* C4: when the callback returns neither a SpeasyVariable nor a tuple of the
\* length the adapter expects, get_data returns None and raises nothing.
C4_UnrecognizedShapeGivesAbsent ==
    (/\ fetch_ret.status # "pending"
     /\ res.kind \notin {"raise", "SpeasyVariable"}
     /\ ~(res.kind = "tuple" /\ Len(res.items) = ExpectedArity(adapter.cls)))
        => fetch_ret.status = "returned" /\ fetch_ret.kind = "NoneType"

\* C10: every Variable get_data builds from a tuple has a time axis as long as
\* the data block's first dimension and, for the spectrogram adapter, a
\* secondary axis as long as the data block's second dimension.  Stated for a
\* speasy that checks the time axis itself and for a data block that has a
\* second dimension, so that what is left to break it is only what neither the
\* adapter nor the library checks.
C10_AxisLengthsMatchData ==
    (fetch_ret.status = "returned" /\ fetch_ret.kind = "SpeasyVariable"
        /\ res.kind = "tuple" /\ speasy_validates)
        => LET v == fetch_ret.var
               dims == v.values.values.shape
           IN  /\ v.axes[1].values.shape[1] = dims[1]
               /\ (adapter.cls = "EasySpectrogram" /\ Len(dims) >= 2)
                     => /\ Len(v.axes) = 2
                        /\ v.axes[2].values.shape[Len(v.axes[2].values.shape)] = dims[2]

(***************************************************************************)
(* Properties of the path split, checked under SpecSplit.                  *)
(***************************************************************************)

\* C14: the split is lossless: the product name holds no '/', the parent path
\* followed by the product name is the path given, and the product name of a
\* path that does not end in '/' is not empty.  (Of a path that ends in '/'
\* the text after the last '/' is empty whatever the split does, so for it
\* only the first two are asked for.)
C14_SplitIsLossless ==
    split_ret.status = "returned"
        => /\ \A i \in 1..Len(split_ret.product_name) : split_ret.product_name[i] # "/"
           /\ split_ret.product_path \o split_ret.product_name = split_path
           /\ (split_path # <<>> /\ split_path[Len(split_path)] # "/")
                 => split_ret.product_name # <<>>

(***************************************************************************)
(* Properties of adapters in the running program, checked under SpecEasy.  *)
(***************************************************************************)

\* The object has been constructed (or is being) and no finaliser has run on it.
NotDisposed(p) == objects[p].state \in {"constructing", "live"}

\* Every object constructed so far is an adapter.
OnlyAdapters ==
    \A p \in ObjectIds : objects[p].state # "unborn" => easy[p].cls # "DataProvider"

Replaced(a) ==
    \E q \in ObjectIds :
        q > a /\ objects[q].state # "unborn" /\ objects[q].name = objects[a].name

\* C13: in every state, a catalog leaf added by an adapter that is neither
\* disposed nor replaced names a provider that lookup resolves to that adapter.
C13_LeafProviderResolves ==
    ~providers_is_None
        => \A i \in 1..Len(products) :
              LET a == products[i].by
              IN  (NotDisposed(a) /\ ~Replaced(a))
                      => lookup(products[i].product.provider) = a

====
